---- MODULE Spec2Model ----
(***************************************************************************)
(* The case/session state-reconciliation core of the CyberLaw extension    *)
(* popup (frontend/public/script.js): the flagging form, the courtroom     *)
(* session driver with its polling timer, the view switch and the ledger   *)
(* mirror, together with the requests they have in flight.                 *)
(*                                                                         *)
(* Conventions.  A nullable JavaScript value is a sequence of length at    *)
(* most one: None is null, Some(v) is v.  A piece of text is a sequence of *)
(* strings (its pieces, in order), so that concatenation is \o and the     *)
(* empty string is << >>.                                                  *)
(***************************************************************************)
EXTENDS Integers, Sequences, FiniteSets, Bags, TLC

\* ------------------------------------------------------------------ bounds
\* Case identifiers the backend hands out (one per accepted flag_post).
MaxCases == 2
\* Poll requests that may be outstanding at once (the code sets no limit).
MaxInFlight == 2
\* Entries the backend appends to one case's transcript.
MaxTranscript == 1
\* Ledger stream events and page-observer messages delivered in one run.
MaxEnvEvents == 2
\* Entries of the activity log the model keeps (the most recent ones).
MaxLog == 2

\* ------------------------------------------------------------ basic values
None == << >>
Some(v) == << v >>
IsSome(o) == o # None
Get(o) == o[1]

\* JavaScript truthiness of a nullable text / nullable number.
TruthyText(o) == IsSome(o) /\ Get(o) # << >>
TruthyNum(o) == IsSome(o) /\ Get(o) # 0

\* a || b on texts (used for data.detail || "default").
OrText(o, default) == IF TruthyText(o) THEN Get(o) ELSE default

CaseId(i) == IF i = 1 THEN "c1" ELSE IF i = 2 THEN "c2" ELSE IF i = 3 THEN "c3" ELSE "c4"
CaseIds == { CaseId(i) : i \in 1..MaxCases }

TerminalStatus(s) == s = "COMPLETED" \/ s = "ERROR"

\* The snapshot appState.courtroomSessionState starts from and reset() restores.
InitialSessionState ==
    [ court_status |-> "IDLE",
      current_turn_agent |-> None,
      transcript |-> << >>,
      jury_deliberation_history |-> << >>,
      jury_votes |-> << >>,
      final_verdict |-> None,
      error_message |-> None,
      agents_status |-> << >> ]

InitialAppState ==
    [ status |-> << "Idle" >>,
      log |-> << >>,
      isProcessing |-> FALSE,
      cases |-> << >>,
      error |-> Some(<< >>),
      showCourtroom |-> FALSE,
      currentCaseIdForCourtroom |-> None,
      courtroomSessionState |-> InitialSessionState ]

\* The document as popup.html ships it: flagging view shown, courtroom area,
\* reset button, verdict panel and error box carrying the class "hidden".
InitialDom ==
    [ mainContentHidden |-> FALSE,
      courtroomSessionHidden |-> TRUE,
      startHidden |-> FALSE,
      resetHidden |-> TRUE,
      startDisabled |-> FALSE,
      flagDisabled |-> FALSE,
      finalVerdictHidden |-> TRUE,
      errorHidden |-> TRUE,
      errorMessage |-> << >>,
      postContent |-> << >>,
      postLink |-> << >>,
      victimInfo |-> << >>,
      victimEthAddress |-> << >> ]

VARIABLES
    appState,                  \* the global appState object
    courtroomPollingInterval,  \* the stored interval handle (None = null)
    timers,                    \* interval timers the host has scheduled
    dom,                       \* classes, disabled flags and input values
    userId,                    \* the per-install identity (None until auth)
    subscribed,                \* the ledger onSnapshot listener is attached
    flagReq,                   \* the outstanding POST /flag_post, if any
    startReq,                  \* the outstanding POST /start_courtroom_session
    polls,                     \* bag of outstanding GET /get_courtroom_updates
    backend,                   \* the backend's session for the newest case
    issued,                    \* case identifiers the backend has handed out
    envEvents,                 \* ledger events and observer messages so far
    reportAck,                 \* what the page observer's callback last received
    observed                   \* history: how polling was told to stop since
                               \* the last reset

\* The CyberLawLedger contract (src/blockchain/contracts/CyberLawLedger.sol).
VARIABLES
    cases,                     \* mapping(string => Case) cases
    caseIds,                   \* string[] caseIds
    balance,                   \* address(this).balance
    paid,                      \* history: payFine calls that succeeded, per case
    compensated,               \* history: transfers made to the victim, per case
    frames,                    \* distributeCompensation calls waiting at line 97
                               \* for the victim's code to return
    receipt                    \* how the last call ended

Contract == << cases, caseIds, balance, paid, compensated, frames, receipt >>

vars == << appState, courtroomPollingInterval, timers, dom, userId, subscribed,
           flagReq, startReq, polls, backend, issued, envEvents, reportAck,
           observed, cases, caseIds, balance, paid, compensated, frames,
           receipt >>

\* The part of the state the popup's synchronous functions read and write.
World ==
    [ appState |-> appState,
      interval |-> courtroomPollingInterval,
      timers |-> timers,
      dom |-> dom ]

Commit(w) ==
    /\ appState' = w.appState
    /\ courtroomPollingInterval' = w.interval
    /\ timers' = w.timers
    /\ dom' = w.dom

\* ------------------------------------------------------- utility functions
\* appState.log.push(...); the model keeps the log's most recent MaxLog entries.
Recent(log) == IF Len(log) > MaxLog THEN SubSeq(log, Len(log) - MaxLog + 1, Len(log)) ELSE log

addLog(w, message) ==
    [ w EXCEPT !.appState.log = Recent(Append(@, message)) ]

renderError(w) ==
    IF TruthyText(w.appState.error)
    THEN [ w EXCEPT !.dom.errorHidden = FALSE,
                    !.dom.errorMessage = Get(w.appState.error) ]
    ELSE [ w EXCEPT !.dom.errorHidden = TRUE, !.dom.errorMessage = << >> ]

setError(w, message) ==
    renderError([ w EXCEPT !.appState.error = message ])

setStatus(w, message) ==
    [ w EXCEPT !.appState.status = message ]

\* updateProcessingState setting the flag without disabling the button.
updateProcessingState_KeepsButton(w, isProcessing) ==
    [ w EXCEPT !.appState.isProcessing = isProcessing ]

\* Lines 120-132.
updateProcessingState(w, isProcessing) ==
    [ w EXCEPT !.appState.isProcessing = isProcessing,
               !.dom.flagDisabled = isProcessing ]

\* clearInterval(handle): cancels that timer; a null handle cancels nothing.
clearInterval(w, handle) ==
    IF IsSome(handle) THEN [ w EXCEPT !.timers = @ \ { Get(handle) } ] ELSE w

\* setInterval: the host schedules a timer and returns an identifier that no
\* live timer carries (identifiers are positive).
NewTimerId(w) ==
    CHOOSE i \in 1..(Cardinality(w.timers) + 1) : i \notin w.timers

\* startCourtroomPolling scheduling a timer without clearing the stored one.
startCourtroomPolling_NoClear(w) ==
    LET id == NewTimerId(w)
        w2 == [ w EXCEPT !.interval = Some(id), !.timers = @ \cup { id } ]
    IN  addLog(w2, << "Started polling for courtroom updates." >>)

\* Lines 526-532.
startCourtroomPolling(w) ==
    LET w1 == IF TruthyNum(w.interval) THEN clearInterval(w, w.interval) ELSE w
        id == NewTimerId(w1)
        w2 == [ w1 EXCEPT !.interval = Some(id), !.timers = @ \cup { id } ]
    IN  addLog(w2, << "Started polling for courtroom updates." >>)

\* ---------------------------------------------------------- render functions
\* Lines 255-276: the verdict panel and the buttons it flips.
RenderVerdict(w) ==
    LET state == w.appState.courtroomSessionState IN
    IF IsSome(state.final_verdict)
    THEN [ w EXCEPT !.dom.finalVerdictHidden = FALSE,
                    !.dom.startHidden = TRUE,
                    !.dom.resetHidden = FALSE ]
    ELSE IF state.court_status = "IDLE"
         THEN [ w EXCEPT !.dom.finalVerdictHidden = TRUE,
                         !.dom.startHidden = FALSE,
                         !.dom.resetHidden = TRUE ]
         ELSE [ w EXCEPT !.dom.finalVerdictHidden = TRUE ]

\* RenderButtons with the terminal branch leaving the timer alone.
RenderButtons_KeepsTimer(w) ==
    LET state == w.appState.courtroomSessionState IN
    IF TerminalStatus(state.court_status)
    THEN [ w EXCEPT !.dom.startHidden = TRUE, !.dom.resetHidden = FALSE ]
    ELSE IF state.court_status = "IDLE"
         THEN [ w EXCEPT !.dom.startHidden = FALSE, !.dom.resetHidden = TRUE ]
         ELSE [ w EXCEPT !.dom.startHidden = TRUE, !.dom.resetHidden = TRUE ]

\* RenderButtons with the in-progress branch forgetting the reset button.
RenderButtons_LeavesReset(w) ==
    LET state == w.appState.courtroomSessionState IN
    IF TerminalStatus(state.court_status)
    THEN [ clearInterval(w, w.interval) EXCEPT
               !.dom.startHidden = TRUE,
               !.dom.resetHidden = FALSE,
               !.interval = None ]
    ELSE IF state.court_status = "IDLE"
         THEN [ w EXCEPT !.dom.startHidden = FALSE, !.dom.resetHidden = TRUE ]
         ELSE [ w EXCEPT !.dom.startHidden = TRUE ]

\* Lines 278-290: button visibility by status; a terminal status stops polling.
RenderButtons(w) ==
    LET state == w.appState.courtroomSessionState IN
    IF TerminalStatus(state.court_status)
    THEN [ clearInterval(w, w.interval) EXCEPT
               !.dom.startHidden = TRUE,
               !.dom.resetHidden = FALSE,
               !.interval = None ]
    ELSE IF state.court_status = "IDLE"
         THEN [ w EXCEPT !.dom.startHidden = FALSE, !.dom.resetHidden = TRUE ]
         ELSE [ w EXCEPT !.dom.startHidden = TRUE, !.dom.resetHidden = TRUE ]

\* Lines 292-295: "ensure polling is active".
EnsurePolling(w) ==
    LET state == w.appState.courtroomSessionState IN
    IF /\ w.appState.showCourtroom
       /\ ~TerminalStatus(state.court_status)
       /\ w.interval = None
    THEN startCourtroomPolling(w)
    ELSE w

renderCourtroomSessionState(w) ==
    EnsurePolling(RenderButtons(RenderVerdict(w)))

\* renderAppUI showing the courtroom area without hiding the flagging view.
renderAppUI_KeepsMain(w) ==
    IF w.appState.showCourtroom
    THEN renderCourtroomSessionState(
             [ w EXCEPT !.dom.courtroomSessionHidden = FALSE ])
    ELSE [ w EXCEPT !.dom.mainContentHidden = FALSE,
                    !.dom.courtroomSessionHidden = TRUE ]

\* Lines 196-206: one of the two top-level views, by the view flag.
renderAppUI(w) ==
    IF w.appState.showCourtroom
    THEN renderCourtroomSessionState(
             [ w EXCEPT !.dom.mainContentHidden = TRUE,
                        !.dom.courtroomSessionHidden = FALSE ])
    ELSE [ w EXCEPT !.dom.mainContentHidden = FALSE,
                    !.dom.courtroomSessionHidden = TRUE ]

\* resetCourtroomSessionView without its first two lines (the timer is kept).
resetCourtroomSessionView_KeepsTimer(w) ==
    LET w2 == [ w EXCEPT !.appState.showCourtroom = FALSE,
                         !.appState.currentCaseIdForCourtroom = None,
                         !.appState.courtroomSessionState = InitialSessionState ]
        w3 == setStatus(setError(w2, None), << "Idle" >>)
        w4 == renderCourtroomSessionState(renderAppUI(w3))
    IN  addLog(w4, << "Courtroom session view reset." >>)

\* resetCourtroomSessionView toggling the view flag instead of clearing it.
resetCourtroomSessionView_TogglesView(w) ==
    LET w1 == [ clearInterval(w, w.interval) EXCEPT !.interval = None ]
        w2 == [ w1 EXCEPT !.appState.showCourtroom = ~@,
                          !.appState.currentCaseIdForCourtroom = None,
                          !.appState.courtroomSessionState = InitialSessionState ]
        w3 == setStatus(setError(w2, None), << "Idle" >>)
        w4 == renderCourtroomSessionState(renderAppUI(w3))
    IN  addLog(w4, << "Courtroom session view reset." >>)

resetCourtroomSessionView(w) ==
    LET w1 == [ clearInterval(w, w.interval) EXCEPT !.interval = None ]
        w2 == [ w1 EXCEPT !.appState.showCourtroom = FALSE,
                          !.appState.currentCaseIdForCourtroom = None,
                          !.appState.courtroomSessionState = InitialSessionState ]
        w3 == setStatus(setError(w2, None), << "Idle" >>)
        w4 == renderCourtroomSessionState(renderAppUI(w3))
    IN  addLog(w4, << "Courtroom session view reset." >>)

\* ------------------------------------------------------------- form inputs
\* Input values are sequences of characters.
Whitespace == { " ", "\t", "\n" }

RECURSIVE TrimLeft(_)
TrimLeft(s) ==
    IF s # << >> /\ Head(s) \in Whitespace THEN TrimLeft(Tail(s)) ELSE s

RECURSIVE TrimRight(_)
TrimRight(s) ==
    IF s # << >> /\ s[Len(s)] \in Whitespace
    THEN TrimRight(SubSeq(s, 1, Len(s) - 1))
    ELSE s

\* String.prototype.trim
Trim(s) == TrimRight(TrimLeft(s))

HexChars ==
    { "0", "1", "2", "3", "4", "5", "6", "7", "8", "9",
      "a", "b", "c", "d", "e", "f", "A", "B", "C", "D", "E", "F" }

AddressHexLen == 40

\* The pattern without its anchors' effect on length: a prefix test.
MatchesAddressPattern_Unanchored(s) ==
    /\ Len(s) >= 2
    /\ s[1] = "0"
    /\ s[2] = "x"
    /\ \A i \in 3..Len(s) : i <= 2 + AddressHexLen => s[i] \in HexChars

\* /^0x[a-fA-F0-9]{40}$/.test(s)
MatchesAddressPattern(s) ==
    /\ Len(s) = 2 + AddressHexLen
    /\ s[1] = "0"
    /\ s[2] = "x"
    /\ \A i \in 3..Len(s) : s[i] \in HexChars

Repeat(c, n) == [ i \in 1..n |-> c ]

SomeText == << "y", "o", "u" >>
BlankText == << " ", " " >>
GoodAddress == << "0", "x" >> \o Repeat("a", 20) \o Repeat("F", 19) \o << "7" >>
PaddedAddress == << " " >> \o GoodAddress \o << " " >>
BadAddress == << "0", "x" >> \o Repeat("a", 39) \o << "g" >>

Alice == << "a", "l", "i", "c", "e" >>
Url == << "u", "r", "l" >>

Form(content, link, victim, address) ==
    [ postContent |-> content, postLink |-> link,
      victimInfo |-> victim, victimEthAddress |-> address ]

\* The forms a user submits: a well-formed one, and one for each field the
\* validation rejects.
FormInputs ==
    { Form(SomeText, Url, Alice, PaddedAddress),
      Form(BlankText, Url, Alice, PaddedAddress),
      Form(SomeText, Url, BlankText, PaddedAddress),
      Form(SomeText, Url, Alice, BadAddress) }

FASTAPI_BACKEND_URL == << "http://127.0.0.1:8000" >>

\* FlagValidationError without the address check of line 388.
FlagValidationError_NoAddressCheck(d, uid) ==
    IF Trim(d.postContent) = << >>
    THEN Some(<< "Please enter the post content." >>)
    ELSE IF Trim(d.victimInfo) = << >>
    THEN Some(<< "Please enter victim information." >>)
    ELSE IF ~IsSome(uid)
    THEN Some(<< "Authentication not ready. Please wait a moment or refresh." >>)
    ELSE None

\* Lines 381-392: the field-specific error of the first failing check, if any.
FlagValidationError(d, uid) ==
    LET postContent == Trim(d.postContent)
        victimInfo == Trim(d.victimInfo)
        victimEthAddress == Trim(d.victimEthAddress)
    IN  IF postContent = << >>
        THEN Some(<< "Please enter the post content." >>)
        ELSE IF victimInfo = << >>
        THEN Some(<< "Please enter victim information." >>)
        ELSE IF victimEthAddress # << >> /\ ~MatchesAddressPattern(victimEthAddress)
        THEN Some(<< "Please enter a valid Ethereum/Polygon address (starts with 0x and is 42 characters long)." >>)
        ELSE IF ~IsSome(uid)
        THEN Some(<< "Authentication not ready. Please wait a moment or refresh." >>)
        ELSE IF FASTAPI_BACKEND_URL = << >>
        THEN Some(<< "Backend URL is not defined." >>)
        ELSE None

\* The body of POST /flag_post (lines 404-410).
FlagRequestBody(d, uid) ==
    [ postContent |-> Trim(d.postContent),
      victimInfo |-> Trim(d.victimInfo),
      userId |-> Get(uid),
      postLink |-> Trim(d.postLink),
      victimEthAddress |-> Trim(d.victimEthAddress) ]

\* Lines 394-398: what handleFlagPost does before it awaits the fetch.
FlagPostSend(w) ==
    LET w1 == updateProcessingState(w, TRUE)
        w2 == [ w1 EXCEPT !.appState.log = << >> ]
        w3 == setError(w2, Some(<< >>))
        w4 == setStatus(w3, << "Initiating initial analysis via FastAPI backend..." >>)
    IN  addLog(w4, << "Sending flag post request to backend..." >>)

\* FlagPostFinally with line 445 active: the address field is cleared too.
FlagPostFinally_ClearsAddress(w) ==
    [ updateProcessingState(w, FALSE) EXCEPT
          !.dom.postContent = << >>,
          !.dom.postLink = << >>,
          !.dom.victimInfo = << >>,
          !.dom.victimEthAddress = << >> ]

\* Lines 439-446: the finally block.
FlagPostFinally(w) ==
    [ updateProcessingState(w, FALSE) EXCEPT
          !.dom.postContent = << >>,
          !.dom.postLink = << >>,
          !.dom.victimInfo = << >> ]

\* FlagPostOk taking any case_details for a violation.
FlagPostOk_AnyDetails(w, data) ==
    LET w1 == addLog(w, << "Initial Analysis Backend Response: " >> \o data.json)
        w2 == setStatus(w1, OrText(data.message, << "Initial analysis complete." >>))
    IN  IF IsSome(data.case_details)
        THEN LET w3 == [ w2 EXCEPT
                           !.appState.currentCaseIdForCourtroom = data.case_id,
                           !.appState.showCourtroom = TRUE ]
                 w4 == setStatus(w3, << "Violation detected. Courtroom session commencing!" >>)
                 w5 == addLog(w4, << "Violation detected, showing courtroom for case: " >>
                                      \o OrText(Some(data.case_id), << "undefined" >>))
             IN  renderAppUI(w5)
        ELSE addLog(setStatus(w2, << "No violation detected. Case closed." >>),
                    << "No violation detected. Case closed." >>)

\* Lines 419-432: a 2xx response.  data.case_details is None when absent.
FlagPostOk(w, data) ==
    LET w1 == addLog(w, << "Initial Analysis Backend Response: " >> \o data.json)
        w2 == setStatus(w1, OrText(data.message, << "Initial analysis complete." >>))
    IN  IF IsSome(data.case_details)
           /\ Get(data.case_details) # "Case Closed - No Violation"
        THEN LET w3 == [ w2 EXCEPT
                           !.appState.currentCaseIdForCourtroom = data.case_id,
                           !.appState.showCourtroom = TRUE ]
                 w4 == setStatus(w3, << "Violation detected. Courtroom session commencing!" >>)
                 w5 == addLog(w4, << "Violation detected, showing courtroom for case: " >>
                                      \o OrText(Some(data.case_id), << "undefined" >>))
             IN  renderAppUI(w5)
        ELSE addLog(setStatus(w2, << "No violation detected. Case closed." >>),
                    << "No violation detected. Case closed." >>)

\* Lines 434-438: the catch block; message is err.message.
FlagPostCatch(w, message) ==
    LET text == << "Error during initial processing: " >> \o message
    IN  setStatus(addLog(setError(w, Some(text)), text),
                  << "Error during initial processing." >>)

\* ------------------------------------------------------------------ backend
\* The external backend, at its boundary: a case's session status and the
\* number of transcript entries appended so far.  Requests are only ever sent
\* for the bound case, which is the newest one, so the sessions of older
\* cases are never read again and the model keeps the newest case's alone.
\* A session is IDLE from the flagging of its case, STARTING once the backend
\* accepts start_courtroom_session, then in progress until it ends COMPLETED
\* or ERROR.  Statuses other than these four are opaque progress labels; one
\* stands for them.
InProgress == "OPENING_STATEMENTS"

NoSession(c) == [ case_id |-> c, status |-> "IDLE", n |-> 0 ]

TranscriptEntry(c, i) ==
    [ agent_name |-> "Court Judge", message |-> << c, i >>, type |-> "statement" ]

Verdict(c) == [ verdict_type |-> "Guilty", final_ban_status |-> "Temporary", case |-> c ]

\* The full session snapshot GET /get_courtroom_updates answers with.
Snapshot(c, b) ==
    [ court_status |-> b.status,
      current_turn_agent |->
          IF b.status = InProgress THEN Some("Court Judge") ELSE None,
      transcript |-> [ i \in 1..b.n |-> TranscriptEntry(c, i) ],
      jury_deliberation_history |-> << >>,
      jury_votes |-> << >>,
      final_verdict |-> IF b.status = "COMPLETED" THEN Some(Verdict(c)) ELSE None,
      error_message |-> IF b.status = "ERROR" THEN Some(<< "agent timeout" >>) ELSE None,
      agents_status |->
          IF b.status = InProgress THEN << << "Court Judge", "Speaking" >> >> ELSE << >> ]

\* A non-2xx response carrying {detail}.
Rejected(detail) == [ kind |-> "rejected", detail |-> Some(detail) ]
\* fetch (or response.json()) threw: err.message.
Threw(message) == [ kind |-> "threw", message |-> message ]

Failures == { Rejected(<< "Case not found" >>), Threw(<< "Failed to fetch" >>) }

\* err.message of a failed request: the response's detail when it carries
\* one (lines 415-417, 468-470), else what fetch threw.
ErrorMessage(f, default) ==
    IF f.kind = "rejected" THEN OrText(f.detail, default) ELSE f.message

\* ------------------------------------------------ CyberLawLedger: storage
\* Largest penalty, compensation and msg.value, in wei.
MaxWei == 2
\* Largest contract balance the model follows.
MaxBalance == 4
\* distributeCompensation calls that can be waiting inside one another.
MaxDepth == 2
\* block.timestamp of every transaction (a positive number).
BlockTimestamp == 1

\* Accounts a case can name as its victim: an externally owned account, and
\* a contract whose code runs when it receives value.
Accounts == { "wallet", "receiver" }
HasCode(a) == a = "receiver"

\* What cases[id] reads for an identifier never written (all fields zero).
\* The struct's other fields (postHash, violationType, councilDecision,
\* banStatus, decisionExplanation, socialScore) are written at lines 55-63
\* and never read or written by the contract again.
ZeroCase ==
    [ caseId |-> "",
      victimAddress |-> "0x0",
      penaltyAmountWei |-> 0,
      compensationToVictimWei |-> 0,
      fineCollected |-> FALSE,
      compensationDistributed |-> FALSE,
      timestamp |-> 0 ]

\* The contract as deployed: no case, no funds, no call in progress.
InitialStorage ==
    [ cases |-> [ id \in CaseIds |-> ZeroCase ],
      caseIds |-> << >>,
      balance |-> 0,
      paid |-> [ id \in CaseIds |-> 0 ],
      compensated |-> [ id \in CaseIds |-> 0 ] ]

\* What a transaction changes and a revert restores.
Storage ==
    [ cases |-> cases,
      caseIds |-> caseIds,
      balance |-> balance,
      paid |-> paid,
      compensated |-> compensated ]

ContractInit ==
    /\ cases = InitialStorage.cases
    /\ caseIds = InitialStorage.caseIds
    /\ balance = InitialStorage.balance
    /\ paid = InitialStorage.paid
    /\ compensated = InitialStorage.compensated
    /\ frames = << >>
    /\ receipt = None

\* ---------------------------------------------------------- initial state
Init ==
    /\ appState = InitialAppState
    /\ courtroomPollingInterval = None
    /\ timers = {}
    /\ dom = InitialDom
    /\ userId = None
    /\ subscribed = FALSE
    /\ flagReq = None
    /\ startReq = None
    /\ polls = EmptyBag
    /\ backend = NoSession("c0")
    /\ issued = 0
    /\ envEvents = 0
    /\ reportAck = None
    /\ ContractInit
    /\ observed = {}

Network == << flagReq, startReq, polls, backend, issued >>
Popup == << appState, courtroomPollingInterval, timers, dom >>

\* ------------------------------------------------------------------ identity
\* Lines 341-352: the listener is attached unless the identity is missing
\* (db is set at line 304, before the identity can arrive).
setupFirestoreSnapshotListener(uid) == IsSome(uid)

\* Lines 309-315: onAuthStateChanged delivers the signed-in user.
AuthStateChanged ==
    /\ userId = None
    /\ userId' = Some("u1")
    /\ Commit(addLog(World, << "User authenticated: ", "u1" >>))
    /\ subscribed' = setupFirestoreSnapshotListener(userId')
    /\ UNCHANGED << Contract, Network, envEvents, reportAck, observed >>

\* ------------------------------------------------------------------ flagPost
\* The click on "Flag Post" can happen only in the flagging view and while
\* the button is enabled.
FlagAvailable(d) == ~d.mainContentHidden /\ ~d.flagDisabled

\* handleFlagPost recording a rejected form in the activity log as well.
handleFlagPost_LogsRejection(w, uid) ==
    LET invalid == FlagValidationError(w.dom, uid)
    IN  IF IsSome(invalid)
        THEN [ world |-> addLog(setError(w, invalid), Get(invalid)), request |-> None ]
        ELSE [ world |-> FlagPostSend(w),
               request |-> Some(FlagRequestBody(w.dom, uid)) ]

\* handleFlagPost up to its await (lines 379-411), on the form as filled in:
\* the popup state it leaves and the request it sends, if any.
handleFlagPost(w, uid) ==
    LET invalid == FlagValidationError(w.dom, uid)
    IN  IF IsSome(invalid)
        THEN [ world |-> setError(w, invalid), request |-> None ]
        ELSE [ world |-> FlagPostSend(w),
               request |-> Some(FlagRequestBody(w.dom, uid)) ]

Fill(w, form) ==
    [ w EXCEPT !.dom.postContent = form.postContent,
               !.dom.postLink = form.postLink,
               !.dom.victimInfo = form.victimInfo,
               !.dom.victimEthAddress = form.victimEthAddress ]

\* The user fills the form and clicks.
HandleFlagPost ==
    /\ FlagAvailable(dom)
    /\ \E form \in FormInputs :
        LET done == handleFlagPost(Fill(World, form), userId)
        IN  /\ Commit(done.world)
            /\ flagReq' = IF IsSome(done.request) THEN done.request ELSE flagReq
    /\ UNCHANGED << Contract, userId, subscribed, startReq, polls, backend, issued, envEvents, reportAck, observed >>

\* A 2xx answer to flag_post.
FlagOkData(c, details) ==
    [ case_id |-> Some(c),
      case_details |-> details,
      message |-> Some(<< "Post flagged." >>),
      json |-> << c >> \o (IF IsSome(details) THEN << Get(details) >> ELSE << >>) ]

\* The backend found a violation: the answer names a new case (lines 413-428,
\* 439-446).
FlagPostViolation ==
    /\ IsSome(flagReq)
    /\ issued < MaxCases
    /\ Commit(FlagPostFinally(
           FlagPostOk(World, FlagOkData(CaseId(issued + 1), Some("Under Review")))))
    /\ issued' = issued + 1
    /\ backend' = NoSession(CaseId(issued + 1))
    /\ flagReq' = None
    /\ UNCHANGED << Contract, userId, subscribed, startReq, polls, envEvents, reportAck, observed >>

\* A 2xx answer that reports a violation but carries no case_id: data.case_id
\* is undefined and line 423 binds it.
FlagPostViolationWithoutCaseId ==
    /\ IsSome(flagReq)
    /\ Commit(FlagPostFinally(FlagPostOk(World,
           [ case_id |-> None,
             case_details |-> Some("Under Review"),
             message |-> Some(<< "Post flagged." >>),
             json |-> << "Under Review" >> ])))
    /\ flagReq' = None
    /\ UNCHANGED << Contract, userId, subscribed, startReq, polls, backend, issued, envEvents, reportAck, observed >>

\* The backend closed the case, or answered without case_details (lines
\* 429-432, 439-446).
FlagPostNoViolation ==
    /\ IsSome(flagReq)
    /\ \E details \in { Some("Case Closed - No Violation"), None } :
        Commit(FlagPostFinally(FlagPostOk(World, FlagOkData("c0", details))))
    /\ flagReq' = None
    /\ UNCHANGED << Contract, userId, subscribed, startReq, polls, backend, issued, envEvents, reportAck, observed >>

\* The flag_post request fails: non-2xx, or fetch throws (lines 415-417, 434-446).
FlagPostFails ==
    /\ IsSome(flagReq)
    /\ \E f \in Failures :
        Commit(FlagPostFinally(FlagPostCatch(World,
            ErrorMessage(f, << "Backend responded with status " >>))))
    /\ flagReq' = None
    /\ UNCHANGED << Contract, userId, subscribed, startReq, polls, backend, issued, envEvents, reportAck, observed >>

\* -------------------------------------------------------------- startSession
\* The click on "Start Courtroom Session" needs the button shown and enabled.
StartAvailable(d) == ~d.courtroomSessionHidden /\ ~d.startHidden /\ ~d.startDisabled

\* startCourtroomSession treating a missing case like a failed start.
startCourtroomSession_FailsSession(w) ==
    LET caseId == w.appState.currentCaseIdForCourtroom IN
    IF ~IsSome(caseId)
    THEN [ world |-> [ setError(w, Some(<< "No case selected to start courtroom session." >>))
                       EXCEPT !.appState.courtroomSessionState.court_status = "ERROR" ],
           request |-> None ]
    ELSE [ world |-> [ addLog(setStatus(w, << "Starting courtroom session..." >>),
                              << "Requesting backend to start courtroom for Case ID: " >>
                                  \o caseId)
                       EXCEPT !.dom.startDisabled = TRUE ],
           request |-> Some([ case_id |-> Get(caseId), accepted |-> FALSE ]) ]

\* startCourtroomSession up to its await (lines 449-465).
startCourtroomSession(w) ==
    LET caseId == w.appState.currentCaseIdForCourtroom IN
    IF ~IsSome(caseId)
    THEN [ world |-> setError(w, Some(<< "No case selected to start courtroom session." >>)),
           request |-> None ]
    ELSE [ world |-> [ addLog(setStatus(w, << "Starting courtroom session..." >>),
                              << "Requesting backend to start courtroom for Case ID: " >>
                                  \o caseId)
                       EXCEPT !.dom.startDisabled = TRUE ],
           request |-> Some([ case_id |-> Get(caseId), accepted |-> FALSE ]) ]

StartCourtroomSession ==
    /\ StartAvailable(dom)
    /\ LET done == startCourtroomSession(World) IN
        /\ Commit(done.world)
        /\ startReq' = IF IsSome(done.request) THEN done.request ELSE startReq
    /\ UNCHANGED << Contract, userId, subscribed, flagReq, polls, backend, issued, envEvents, reportAck, observed >>

\* The backend accepts the request and opens the case's session.
BackendStartsSession ==
    /\ IsSome(startReq)
    /\ ~Get(startReq).accepted
    /\ backend' = IF backend.case_id = Get(startReq).case_id /\ backend.status = "IDLE"
                  THEN [ backend EXCEPT !.status = "STARTING" ]
                  ELSE backend
    /\ startReq' = Some([ Get(startReq) EXCEPT !.accepted = TRUE ])
    /\ UNCHANGED << Contract, Popup, userId, subscribed, flagReq, polls, issued, envEvents, reportAck, observed >>

\* Lines 471-475.
StartSessionOk(w, message) ==
    LET w1 == addLog(w, << "Backend response: " >> \o message)
        w2 == setStatus(w1, << "Courtroom session initialized on backend. Awaiting updates..." >>)
        w3 == [ w2 EXCEPT !.appState.courtroomSessionState.court_status = "STARTING" ]
    IN  startCourtroomPolling(renderCourtroomSessionState(w3))

\* Lines 476-481.
StartSessionCatch(w, message) ==
    LET text == << "Error starting courtroom session: " >> \o message
        w1 == addLog(setError(w, Some(text)), text)
        w2 == [ w1 EXCEPT !.appState.courtroomSessionState.court_status = "ERROR",
                          !.appState.courtroomSessionState.error_message = Some(message) ]
    IN  renderCourtroomSessionState(w2)

\* Lines 482-484: the finally block.
StartSessionFinally(w) == [ w EXCEPT !.dom.startDisabled = FALSE ]

\* The 2xx response of start_courtroom_session is handled.
StartSessionSucceeds ==
    /\ IsSome(startReq)
    /\ Get(startReq).accepted
    /\ Commit(StartSessionFinally(StartSessionOk(World, << "Session started." >>)))
    /\ startReq' = None
    /\ UNCHANGED << Contract, userId, subscribed, flagReq, polls, backend, issued, envEvents, reportAck, observed >>

\* The request was refused, or the exchange failed.
StartSessionFails ==
    /\ IsSome(startReq)
    /\ \E f \in Failures :
        /\ f.kind = "rejected" => ~Get(startReq).accepted
        /\ Commit(StartSessionFinally(StartSessionCatch(World,
               ErrorMessage(f, << "Failed to start courtroom session on backend." >>))))
    /\ startReq' = None
    /\ observed' = observed \cup { "start failed" }
    /\ UNCHANGED << Contract, userId, subscribed, flagReq, polls, backend, issued, envEvents, reportAck >>

\* ---------------------------------------------------------------------- poll
\* fetchCourtroomUpdates up to its await (lines 487-492): nothing when no case
\* is bound, else one GET for the bound case.
PollRequest(w) ==
    LET caseId == w.appState.currentCaseIdForCourtroom IN
    IF ~IsSome(caseId) THEN None ELSE caseId

\* A timer fires.  The backend answers the request with the case's snapshot
\* as it stands; the response then travels for any length of time.
FetchCourtroomUpdates ==
    /\ timers # {}
    /\ LET request == PollRequest(World) IN
       IF ~IsSome(request)
       THEN polls' = polls
       ELSE /\ BagCardinality(polls) < MaxInFlight
            /\ polls' = polls (+) SetToBag({ [ case_id |-> Get(request),
                                              data |-> Snapshot(Get(request), backend) ] })
    /\ UNCHANGED << Contract, Popup, userId, subscribed, flagReq, startReq, backend, issued, envEvents, reportAck, observed >>

\* PollOk merging the response into the snapshot: a null error_message in the
\* response leaves the previous one in place.
PollOk_Merges(w, caseId, data) ==
    LET merged == [ data EXCEPT !.error_message =
                        IF IsSome(@) THEN @
                        ELSE w.appState.courtroomSessionState.error_message ]
        w1 == renderCourtroomSessionState(
                  [ w EXCEPT !.appState.courtroomSessionState = merged ])
    IN  IF TerminalStatus(data.court_status)
        THEN LET w2 == [ clearInterval(w1, w1.interval) EXCEPT !.interval = None ]
                 w3 == addLog(w2, << "Courtroom session for ", caseId,
                                     " ended with status: ", data.court_status >>)
             IN  setStatus(w3, << "Courtroom session concluded: ", data.court_status >>)
        ELSE w1

\* Lines 495-505; caseId is the identifier the request was sent for.
PollOk(w, caseId, data) ==
    LET w1 == renderCourtroomSessionState(
                  [ w EXCEPT !.appState.courtroomSessionState = data ])
    IN  IF TerminalStatus(data.court_status)
        THEN LET w2 == [ clearInterval(w1, w1.interval) EXCEPT !.interval = None ]
                 w3 == addLog(w2, << "Courtroom session for ", caseId,
                                     " ended with status: ", data.court_status >>)
             IN  setStatus(w3, << "Courtroom session concluded: ", data.court_status >>)
        ELSE w1

\* PollFailed that stores the message but leaves court_status as it was.
PollFailed_KeepsStatus(w, message) ==
    LET w1 == [ clearInterval(w, w.interval) EXCEPT !.interval = None ]
        w2 == [ w1 EXCEPT !.appState.courtroomSessionState.error_message = Some(message) ]
    IN  renderCourtroomSessionState(w2)

\* Lines 509-513 and 518-522: the tail both failure branches share.
PollFailed(w, message) ==
    LET w1 == [ clearInterval(w, w.interval) EXCEPT !.interval = None ]
        w2 == [ w1 EXCEPT !.appState.courtroomSessionState.court_status = "ERROR",
                          !.appState.courtroomSessionState.error_message = Some(message) ]
    IN  renderCourtroomSessionState(w2)

\* PollRejected announcing the detail the way the catch block announces a
\* network error.
PollRejected_Prefixed(w, detail) ==
    LET text == << "Network error fetching courtroom updates: " >>
                    \o OrText(detail, << "Failed to fetch courtroom updates." >>)
        w1 == setError(w, Some(text))
        w2 == addLog(w1, << "Failed to fetch courtroom updates: " >>
                             \o OrText(detail, << "Unknown error" >>))
    IN  PollFailed(w2, OrText(detail, << "Failed to fetch updates." >>))

\* Lines 506-513: a non-2xx response.
PollRejected(w, detail) ==
    LET w1 == setError(w, Some(OrText(detail, << "Failed to fetch courtroom updates." >>)))
        w2 == addLog(w1, << "Failed to fetch courtroom updates: " >>
                             \o OrText(detail, << "Unknown error" >>))
    IN  PollFailed(w2, OrText(detail, << "Failed to fetch updates." >>))

\* Lines 515-523: the catch block.
PollCatch(w, message) ==
    LET text == << "Network error fetching courtroom updates: " >> \o message
    IN  PollFailed(addLog(setError(w, Some(text)), text), message)

\* A poll's 2xx response is handled (fetchCourtroomUpdates after its awaits).
PollSucceeds ==
    /\ \E m \in BagToSet(polls) :
        /\ Commit(PollOk(World, m.case_id, m.data))
        /\ polls' = polls (-) SetToBag({ m })
        /\ observed' = IF TerminalStatus(m.data.court_status)
                       THEN observed \cup { m.data.court_status }
                       ELSE observed
    /\ UNCHANGED << Contract, userId, subscribed, flagReq, startReq, backend, issued, envEvents, reportAck >>

\* A poll fails: non-2xx, or fetch throws.
PollFails ==
    /\ \E m \in BagToSet(polls), f \in Failures :
        /\ Commit(IF f.kind = "rejected"
                  THEN PollRejected(World, f.detail)
                  ELSE PollCatch(World, f.message))
        /\ polls' = polls (-) SetToBag({ m })
    /\ observed' = observed \cup { "poll failed" }
    /\ UNCHANGED << Contract, userId, subscribed, flagReq, startReq, backend, issued, envEvents, reportAck >>

\* --------------------------------------------------------------------- reset
\* The click on "Reset Courtroom View"; the button is reachable only while
\* the courtroom area and the button itself are not hidden.
ResetAvailable(d) == ~d.courtroomSessionHidden /\ ~d.resetHidden

ResetCourtroomSessionView ==
    /\ ResetAvailable(dom)
    /\ Commit(resetCourtroomSessionView(World))
    /\ observed' = {}
    /\ UNCHANGED << Contract, userId, subscribed, Network, envEvents, reportAck >>

\* ------------------------------------------------------- backend's progress
BackendBeginsHearing ==
    /\ backend.status = "STARTING"
    /\ backend' = [ backend EXCEPT !.status = InProgress ]
    /\ UNCHANGED << Contract, Popup, userId, subscribed, flagReq, startReq, polls, issued, envEvents, reportAck, observed >>

BackendAppendsEntry ==
    /\ backend.status = InProgress
    /\ backend.n < MaxTranscript
    /\ backend' = [ backend EXCEPT !.n = @ + 1 ]
    /\ UNCHANGED << Contract, Popup, userId, subscribed, flagReq, startReq, polls, issued, envEvents, reportAck, observed >>

BackendEndsSession ==
    /\ backend.status = InProgress
    /\ \E s \in { "COMPLETED", "ERROR" } :
        backend' = [ backend EXCEPT !.status = s ]
    /\ UNCHANGED << Contract, Popup, userId, subscribed, flagReq, startReq, polls, issued, envEvents, reportAck, observed >>

\* -------------------------------------------------------------- ledger mirror
NumText(n) == IF n = 0 THEN "0" ELSE IF n = 1 THEN "1" ELSE IF n = 2 THEN "2" ELSE "3"

CaseRecord(id) == [ id |-> id, status |-> "Under Review" ]
LedgerSnapshots ==
    { << >>,
      << CaseRecord("k1"), CaseRecord("k2"), CaseRecord("k3") >>,
      << CaseRecord("k4") >> }

\* OnSnapshot without the identity check of lines 353-356.
OnSnapshot_Unchecked(w, uid, docs) ==
    addLog([ w EXCEPT !.appState.cases = docs ],
           << "Updated public ledger with ", NumText(Len(docs)), " cases." >>)

\* OnSnapshot adding the delivered records to the ones already cached.
OnSnapshot_Merges(w, uid, docs) ==
    IF ~IsSome(uid) THEN w
    ELSE addLog([ w EXCEPT !.appState.cases = @ \o docs ],
                << "Updated public ledger with ", NumText(Len(docs)), " cases." >>)

\* Lines 352-364: the onSnapshot callback receives the full collection.
OnSnapshot(w, uid, docs) ==
    IF ~IsSome(uid) THEN w
    ELSE addLog([ w EXCEPT !.appState.cases = docs ],
                << "Updated public ledger with ", NumText(Len(docs)), " cases." >>)

LedgerSnapshot ==
    /\ subscribed
    /\ envEvents < MaxEnvEvents
    /\ \E docs \in LedgerSnapshots : Commit(OnSnapshot(World, userId, docs))
    /\ envEvents' = envEvents + 1
    /\ UNCHANGED << Contract, userId, subscribed, Network, reportAck, observed >>

\* OnSnapshotError dropping the cached records along with the stream.
OnSnapshotError_ClearsCache(w, message) ==
    LET text == << "Firestore Snapshot Error: " >> \o message
    IN  addLog(setError([ w EXCEPT !.appState.cases = << >> ], Some(text)), text)

\* Lines 365-369: the stream's error callback; the stream ends with it.
OnSnapshotError(w, message) ==
    LET text == << "Firestore Snapshot Error: " >> \o message
    IN  addLog(setError(w, Some(text)), text)

LedgerError ==
    /\ subscribed
    /\ envEvents < MaxEnvEvents
    /\ Commit(OnSnapshotError(World, << "permission-denied" >>))
    /\ subscribed' = FALSE
    /\ envEvents' = envEvents + 1
    /\ UNCHANGED << Contract, userId, Network, reportAck, observed >>

\* ------------------------------------------------------- page-observer message
\* Lines 561-569: REPORT_POST fills the content and link fields.
OnReportPost(w, payload) ==
    addLog([ w EXCEPT !.dom.postContent = payload.postContent,
                      !.dom.postLink = payload.sourceUrl ],
           << "Received flagged post content from " >> \o payload.sourceUrl)

PopupAck == [ status |-> "success", message |-> "Post data received by popup." ]
BackgroundAck == [ status |-> "success", message |-> "Message received by background." ]

\* The popup's listener that handles the message and never answers.
popupOnMessage_NoAck(w, request) ==
    IF request.type = "REPORT_POST"
    THEN [ world |-> OnReportPost(w, request.payload), response |-> None ]
    ELSE [ world |-> w, response |-> None ]

\* Lines 561-569: the popup's listener; sendResponse is called before the
\* listener returns.
popupOnMessage(w, request) ==
    IF request.type = "REPORT_POST"
    THEN [ world |-> OnReportPost(w, request.payload), response |-> Some(PopupAck) ]
    ELSE [ world |-> w, response |-> None ]

\* background.js, lines 1-13: the service worker's listener.
backgroundOnMessage(request) ==
    IF request.type = "REPORT_POST" THEN Some(BackgroundAck) ELSE None

\* What the page observer sends (README.md, button.onclick): a post's text
\* and the page's address.
ObserverMessages ==
    { [ type |-> "REPORT_POST",
        payload |-> [ postContent |-> SomeText, sourceUrl |-> Url ] ] }

\* The observer's message reaches both listeners; each answers inside its
\* invocation and the sender's callback receives the first answer.
ReportPost ==
    /\ envEvents < MaxEnvEvents
    /\ \E request \in ObserverMessages :
        LET done == popupOnMessage(World, request)
        IN  /\ Commit(done.world)
            /\ reportAck' \in { done.response, backgroundOnMessage(request) }
    /\ envEvents' = envEvents + 1
    /\ UNCHANGED << Contract, userId, subscribed, Network, observed >>

\* ------------------------------------------------ CyberLawLedger: functions
StorageIs(s) ==
    /\ cases' = s.cases
    /\ caseIds' = s.caseIds
    /\ balance' = s.balance
    /\ paid' = s.paid
    /\ compensated' = s.compensated

Reverted(s) == [ storage |-> s, reverted |-> TRUE ]
Succeeded(s) == [ storage |-> s, reverted |-> FALSE ]

Receipt(function, id, reverted) ==
    Some([ function |-> function, caseId |-> id, reverted |-> reverted ])

\* recordCase without the require of line 51.
recordCase_Overwrites(s, id, victim, penalty, compensation) ==
    Succeeded([ s EXCEPT
        !.cases[id] = [ caseId |-> id,
                        victimAddress |-> victim,
                        penaltyAmountWei |-> penalty,
                        compensationToVictimWei |-> compensation,
                        fineCollected |-> FALSE,
                        compensationDistributed |-> FALSE,
                        timestamp |-> BlockTimestamp ],
        !.caseIds = Append(@, id) ])

\* Lines 39-71.
recordCase(s, id, victim, penalty, compensation) ==
    IF s.cases[id].timestamp # 0
    THEN Reverted(s)
    ELSE Succeeded([ s EXCEPT
             !.cases[id] = [ caseId |-> id,
                             victimAddress |-> victim,
                             penaltyAmountWei |-> penalty,
                             compensationToVictimWei |-> compensation,
                             fineCollected |-> FALSE,
                             compensationDistributed |-> FALSE,
                             timestamp |-> BlockTimestamp ],
             !.caseIds = Append(@, id) ])

\* payFine without the require of line 79.
payFine_AnyAmount(s, id, value) ==
    LET currentCase == s.cases[id] IN
    IF \/ currentCase.timestamp = 0
       \/ currentCase.fineCollected
    THEN Reverted(s)
    ELSE Succeeded([ s EXCEPT !.cases[id].fineCollected = TRUE,
                              !.balance = @ + value,
                              !.paid[id] = @ + 1 ])

\* Lines 75-85; value is msg.value, which the call adds to the balance and a
\* revert returns.
payFine(s, id, value) ==
    LET currentCase == s.cases[id] IN
    IF \/ currentCase.timestamp = 0
       \/ currentCase.fineCollected
       \/ value < currentCase.penaltyAmountWei
    THEN Reverted(s)
    ELSE Succeeded([ s EXCEPT !.cases[id].fineCollected = TRUE,
                              !.balance = @ + value,
                              !.paid[id] = @ + 1 ])

\* distributeCompensationRequires without the require of line 92.
distributeCompensationRequires_NoFineCheck(s, id) ==
    LET currentCase == s.cases[id] IN
    /\ currentCase.timestamp # 0
    /\ ~currentCase.compensationDistributed
    /\ s.balance >= currentCase.compensationToVictimWei

\* Lines 90-94: the four requires of distributeCompensation.
distributeCompensationRequires(s, id) ==
    LET currentCase == s.cases[id] IN
    /\ currentCase.timestamp # 0
    /\ currentCase.fineCollected
    /\ ~currentCase.compensationDistributed
    /\ s.balance >= currentCase.compensationToVictimWei

\* Line 97: the value leaves the contract before the victim's code runs.
distributeCompensationCall(s, id) ==
    [ s EXCEPT !.balance = @ - s.cases[id].compensationToVictimWei,
               !.compensated[id] = @ + 1 ]

\* Lines 98-101, once the call has returned success.
distributeCompensationFinish(s, id) ==
    [ s EXCEPT !.cases[id].compensationDistributed = TRUE ]

\* ------------------------------------------------ CyberLawLedger: calls
\* Every function is public: any account calls it in a transaction of its
\* own, and the victim's code calls it while a distributeCompensation waits
\* for that code to return.
PopupVars == << appState, courtroomPollingInterval, timers, dom, userId, subscribed,
               flagReq, startReq, polls, backend, issued, envEvents, reportAck,
               observed >>

RecordCase ==
    /\ \E id \in CaseIds, victim \in Accounts, penalty \in 1..MaxWei, compensation \in 1..MaxWei :
        LET done == recordCase(Storage, id, victim, penalty, compensation)
        IN  /\ StorageIs(done.storage)
            /\ receipt' = Receipt("recordCase", id, done.reverted)
    /\ UNCHANGED << frames, PopupVars >>

PayFine ==
    /\ \E id \in CaseIds, value \in 0..MaxWei :
        /\ balance + value <= MaxBalance
        /\ LET done == payFine(Storage, id, value)
           IN  /\ StorageIs(done.storage)
               /\ receipt' = Receipt("payFine", id, done.reverted)
    /\ UNCHANGED << frames, PopupVars >>

\* distributeCompensation up to line 97: a failed require reverts; a victim
\* without code receives the value and the call returns at once; a victim
\* with code receives the value and its code starts running.
DistributeCompensation ==
    /\ Len(frames) < MaxDepth
    /\ \E id \in CaseIds :
        IF ~distributeCompensationRequires(Storage, id)
        THEN /\ receipt' = Receipt("distributeCompensation", id, TRUE)
             /\ UNCHANGED << cases, caseIds, balance, paid, compensated, frames >>
        ELSE IF HasCode(cases[id].victimAddress)
        THEN /\ StorageIs(distributeCompensationCall(Storage, id))
             /\ frames' = Append(frames, [ caseId |-> id, saved |-> Storage ])
             /\ UNCHANGED receipt
        ELSE /\ StorageIs(distributeCompensationFinish(
                              distributeCompensationCall(Storage, id), id))
             /\ receipt' = Receipt("distributeCompensation", id, FALSE)
             /\ UNCHANGED frames
    /\ UNCHANGED PopupVars

\* The victim's code returns: success is true and lines 98-101 run.
VictimReturns ==
    /\ frames # << >>
    /\ LET top == frames[Len(frames)]
       IN  /\ StorageIs(distributeCompensationFinish(Storage, top.caseId))
           /\ receipt' = Receipt("distributeCompensation", top.caseId, FALSE)
    /\ frames' = SubSeq(frames, 1, Len(frames) - 1)
    /\ UNCHANGED PopupVars

\* The victim's code fails: success is false, line 98 reverts the call and
\* with it everything done since the call began.
VictimFails ==
    /\ frames # << >>
    /\ LET top == frames[Len(frames)]
       IN  /\ StorageIs(top.saved)
           /\ receipt' = Receipt("distributeCompensation", top.caseId, TRUE)
    /\ frames' = SubSeq(frames, 1, Len(frames) - 1)
    /\ UNCHANGED PopupVars

\* The chain as it stands between transactions: while a transaction is
\* running, the state it started from.
Committed == IF frames = << >> THEN Storage ELSE frames[1].saved

NextLedgerContract ==
    \/ RecordCase
    \/ PayFine
    \/ DistributeCompensation
    \/ VictimReturns
    \/ VictimFails

\* The contract and its callers.
SpecContract == Init /\ [][NextLedgerContract]_vars

\* ------------------------------------------------------------- specification
Next ==
    \/ AuthStateChanged
    \/ HandleFlagPost
    \/ FlagPostViolation
    \/ FlagPostViolationWithoutCaseId
    \/ FlagPostNoViolation
    \/ FlagPostFails
    \/ StartCourtroomSession
    \/ BackendStartsSession
    \/ StartSessionSucceeds
    \/ StartSessionFails
    \/ FetchCourtroomUpdates
    \/ PollSucceeds
    \/ PollFails
    \/ ResetCourtroomSessionView
    \/ BackendBeginsHearing
    \/ BackendAppendsEntry
    \/ BackendEndsSession

\* The flagging form and the courtroom session driver.
Spec == Init /\ [][Next]_vars

\* The flagging view beside the ledger mirror and the page observer, for as
\* long as no case is brought to the courtroom.
NextFlagging ==
    \/ AuthStateChanged
    \/ HandleFlagPost
    \/ FlagPostNoViolation
    \/ FlagPostFails
    \/ LedgerSnapshot
    \/ LedgerError
    \/ ReportPost

SpecFlagging == Init /\ [][NextFlagging]_vars

\* ------------------------------------------------- the victim-address field
\* Strings a user may leave in the victim-address field: a well-formed address
\* with one character replaced, cut short, extended by one character, or
\* wrapped in blanks; and blanks alone.
MaxPad == 2

AddressAlphabet == { "0", "x", "X", "a", "F", "9", "g", "G", " " }

AddressInputs ==
    { [ GoodAddress EXCEPT ![i] = c ] : i \in 1..Len(GoodAddress), c \in AddressAlphabet }
    \cup { SubSeq(GoodAddress, 1, n) : n \in 0..Len(GoodAddress) }
    \cup { GoodAddress \o << c >> : c \in AddressAlphabet }
    \cup { << c >> \o GoodAddress : c \in AddressAlphabet }
    \cup { Repeat(" ", n) \o GoodAddress \o Repeat(" ", m) : n \in 0..MaxPad, m \in 0..MaxPad }
    \cup { Repeat(" ", n) : n \in 1..MaxPad }

\* The popup once the identity has arrived (Init after AuthStateChanged).
InitAddress ==
    /\ appState = [ InitialAppState EXCEPT
                        !.log = << << "User authenticated: ", "u1" >> >> ]
    /\ courtroomPollingInterval = None
    /\ timers = {}
    /\ dom = InitialDom
    /\ userId = Some("u1")
    /\ subscribed = TRUE
    /\ flagReq = None
    /\ startReq = None
    /\ polls = EmptyBag
    /\ backend = NoSession("c0")
    /\ issued = 0
    /\ envEvents = 0
    /\ reportAck = None
    /\ ContractInit
    /\ observed = {}

\* The user fills content and victim information, leaves some string in the
\* address field and clicks "Flag Post".
SubmitAddress ==
    /\ FlagAvailable(dom)
    /\ \E address \in AddressInputs :
        LET done == handleFlagPost(Fill(World, Form(SomeText, Url, Alice, address)), userId)
        IN  /\ Commit(done.world)
            /\ flagReq' = IF IsSome(done.request) THEN done.request ELSE flagReq
    /\ UNCHANGED << Contract, userId, subscribed, startReq, polls, backend, issued, envEvents, reportAck, observed >>

NextAddress ==
    \/ SubmitAddress
    \/ FlagPostNoViolation

SpecAddress == InitAddress /\ [][NextAddress]_vars

\* The ledger mirror and the page observer beside them.
NextMirror ==
    \/ Next
    \/ LedgerSnapshot
    \/ LedgerError
    \/ ReportPost

SpecMirror == Init /\ [][NextMirror]_vars

\* ==================================================================== claims
SessionStatus == appState.courtroomSessionState.court_status
BoundCase == appState.currentCaseIdForCourtroom
PollsInFlight == BagCardinality(polls)
ResetLogEntry == << "Courtroom session view reset." >>
LastLogIs(entry) == appState.log # << >> /\ appState.log[Len(appState.log)] = entry

\* C1: once a poll response with court_status COMPLETED has been applied, no
\* step issues a further poll request until reset() is called.
C1_NoPollAfterCompleted ==
    [][ "COMPLETED" \in observed => PollsInFlight' <= PollsInFlight ]_vars

\* C2: at every moment at most one poll request is in flight.
C2_AtMostOnePollInFlight == PollsInFlight <= 1

\* C3: a terminal court status is absorbing: only reset() takes the session
\* from COMPLETED or ERROR to a non-terminal status.
C3_TerminalAbsorbing ==
    [][ (TerminalStatus(SessionStatus) /\ ~TerminalStatus(SessionStatus'))
            => ResetCourtroomSessionView ]_vars

\* C4: a poll response is applied only if the case its request was issued for
\* is the currently bound case; otherwise it changes neither the session
\* state nor the timer.
C4_StaleResponseDiscarded ==
    [][ \A m \in BagToSet(polls) :
            (polls' = polls (-) SetToBag({ m }) /\ BoundCase # Some(m.case_id))
                => UNCHANGED << appState, courtroomPollingInterval, timers >> ]_vars

\* C5: while the local court status is IDLE no poll timer is running and no
\* poll request is outstanding.
C5_NoPollingWhileIdle ==
    SessionStatus = "IDLE" => (timers = {} /\ PollsInFlight = 0)

\* C6: whenever the local court status is COMPLETED or ERROR, no poll timer
\* is active and the stored handle is null.
C6_TerminalImpliesNoTimer ==
    TerminalStatus(SessionStatus) => (timers = {} /\ courtroomPollingInterval = None)

\* C6 witness: a terminal status was observed in a session whose timer ran.
C6_Witness ==
    /\ TerminalStatus(SessionStatus)
    /\ appState.showCourtroom
    /\ observed # {}

\* C7: reset(), from any reachable state, leaves no timer, no bound case, the
\* initial IDLE snapshot and the flagging view.
ResetPostState(r) ==
    /\ r.timers = {}
    /\ r.interval = None
    /\ r.appState.currentCaseIdForCourtroom = None
    /\ r.appState.courtroomSessionState = InitialSessionState
    /\ r.appState.courtroomSessionState.court_status = "IDLE"
    /\ r.appState.courtroomSessionState.transcript = << >>
    /\ r.appState.courtroomSessionState.final_verdict = None
    /\ r.appState.courtroomSessionState.error_message = None
    /\ r.appState.courtroomSessionState.agents_status = << >>
    /\ ~r.appState.showCourtroom
    /\ ~r.dom.mainContentHidden
    /\ r.dom.courtroomSessionHidden

C7_ResetPostState == ResetPostState(resetCourtroomSessionView(World))

\* C7 witness: the user has just reset a session that ended.
C7_Witness ==
    /\ LastLogIs(ResetLogEntry)
    /\ issued > 0
    /\ ResetPostState(World)

\* C8 as stated: reset() twice in a row yields the state reset() once yields.
C8_ResetIdempotent ==
    resetCourtroomSessionView(resetCourtroomSessionView(World))
        = resetCourtroomSessionView(World)

\* C8 amended: reset() twice yields the state reset() once yields in
\* everything but the activity log, which gains an entry per call.
WithoutLog(w) == [ w EXCEPT !.appState.log = << >> ]

C8_ResetIdempotentExceptLog ==
    WithoutLog(resetCourtroomSessionView(resetCourtroomSessionView(World)))
        = WithoutLog(resetCourtroomSessionView(World))

\* C8 witness: the user has just reset; one more reset would change the log
\* and nothing else.
C8_Witness ==
    /\ LastLogIs(ResetLogEntry)
    /\ Len(appState.log) > 1
    /\ appState.log[Len(appState.log) - 1] # ResetLogEntry
    /\ WithoutLog(resetCourtroomSessionView(World)) = WithoutLog(World)
    /\ resetCourtroomSessionView(World) # World

\* C9 as stated: in the courtroom view reset is available whatever the status.
C9_ResetAlwaysAvailable ==
    ~dom.courtroomSessionHidden => ResetAvailable(dom)

\* C9 amended: in the courtroom view the reset control is offered exactly
\* while the status is COMPLETED or ERROR.
C9_ResetOfferedWhenTerminal ==
    ~dom.courtroomSessionHidden
        => (ResetAvailable(dom) <=> TerminalStatus(SessionStatus))

\* C9 witness: a session in progress, with the reset control hidden.
C9_Witness ==
    /\ ~dom.courtroomSessionHidden
    /\ SessionStatus = InProgress
    /\ ~ResetAvailable(dom)

\* C10: a form whose trimmed content or victim info is empty, or whose
\* non-empty trimmed address does not match the pattern, sends no request:
\* every flag_post request outstanding carries a form that is none of these.
FormRejected(f) ==
    \/ Trim(f.postContent) = << >>
    \/ Trim(f.victimInfo) = << >>
    \/ Trim(f.victimEthAddress) # << >> /\ ~MatchesAddressPattern(Trim(f.victimEthAddress))

C10_InvalidFormSendsNothing ==
    /\ IsSome(flagReq) => ~FormRejected(Get(flagReq))
    /\ \A form \in FormInputs :
           FormRejected(form) => handleFlagPost(Fill(World, form), userId).request = None

\* C10 witness: a form with a malformed address was submitted by a signed-in
\* user and nothing was sent.
C10_Witness ==
    /\ IsSome(userId)
    /\ dom.victimEthAddress = BadAddress
    /\ ~dom.errorHidden
    /\ flagReq = None
    /\ ~appState.isProcessing

\* A click on "Flag Post" that validation turned down: no request left.
FlagPostRejected == HandleFlagPost /\ flagReq' = None

\* C11: a flagPost call rejected by validation changes only the user-visible
\* error text; the activity log, status text, busy flag, ledger cache, view
\* flag, bound case identifier, session state and poll timer stay as they were.
C11_RejectionChangesOnlyError ==
    [][ FlagPostRejected =>
            /\ appState' = [ appState EXCEPT !.error = appState'.error ]
            /\ TruthyText(appState'.error)
            /\ UNCHANGED << courtroomPollingInterval, timers, polls, startReq >>
            /\ dom'.mainContentHidden = dom.mainContentHidden
            /\ dom'.courtroomSessionHidden = dom.courtroomSessionHidden
            /\ dom'.flagDisabled = dom.flagDisabled ]_vars

\* A form without victim information was turned down after an earlier flagPost
\* had run to its end: status text and log are still that flagPost's.
C11_Witness ==
    /\ dom.errorMessage = << "Please enter victim information." >>
    /\ ~dom.errorHidden
    /\ appState.status = << "No violation detected. Case closed." >>
    /\ appState.log # << >>
    /\ flagReq = None

\* The strings of the language ^0x[a-fA-F0-9]{40}$, read off the pattern.
RECURSIVE HexDigits(_)
HexDigits(s) == s = << >> \/ (Head(s) \in HexChars /\ HexDigits(Tail(s)))

WellFormedAddress(s) ==
    /\ Len(s) = 2 + AddressHexLen
    /\ SubSeq(s, 1, 2) = << "0", "x" >>
    /\ HexDigits(SubSeq(s, 3, Len(s)))

AddressError ==
    << "Please enter a valid Ethereum/Polygon address (starts with 0x and is 42 characters long)." >>

\* The outcome of a click, read off the state it leaves, for an address field
\* holding `entered` of which validation looked at `seen`.
AddressDecides(entered, seen) ==
    /\ IsSome(flagReq) => (seen = << >> \/ WellFormedAddress(seen))
    /\ (flagReq = None /\ ~dom.errorHidden) =>
           /\ dom.errorMessage = AddressError
           /\ seen # << >>
           /\ ~WellFormedAddress(seen)

\* C12 (as stated): the string entered as the victim address passes exactly
\* when it matches ^0x[a-fA-F0-9]{40}$ (or is empty), and every other
\* non-empty string is rejected with the address-specific error.
C12_ExactlyPattern == AddressDecides(dom.victimEthAddress, dom.victimEthAddress)

\* C12 (amended): validation looks at the entered string with surrounding
\* whitespace removed; with content and victim information present and the
\* identity ready, the request is sent exactly when that trimmed string is
\* empty or matches ^0x[a-fA-F0-9]{40}$ and carries the trimmed string, and
\* every other string is rejected with the address-specific error.
C12_TrimmedAddressDecides ==
    /\ AddressDecides(dom.victimEthAddress, Trim(dom.victimEthAddress))
    /\ IsSome(flagReq) => Get(flagReq).victimEthAddress = Trim(dom.victimEthAddress)

\* An address wrapped in blanks was accepted and sent without them.
C12_Witness ==
    /\ IsSome(flagReq)
    /\ ~WellFormedAddress(dom.victimEthAddress)
    /\ WellFormedAddress(Get(flagReq).victimEthAddress)

NotReadyError == << "Authentication not ready. Please wait a moment or refresh." >>

\* What holds of the ledger mirror and of requests while the identity is
\* missing: nothing was sent, nothing is subscribed, the cache is untouched,
\* no form leads to a request and a delivered snapshot would change nothing.
NothingAttempted ==
    /\ flagReq = None
    /\ ~subscribed
    /\ ~setupFirestoreSnapshotListener(userId)
    /\ appState.cases = << >>
    /\ \A docs \in LedgerSnapshots : OnSnapshot(World, userId, docs) = World
    /\ \A form \in FormInputs :
           handleFlagPost(Fill(World, form), userId).request = None

\* C13 (as stated): while the identity has not been obtained, every flagPost
\* is refused with the not-ready error and sends nothing, and the ledger
\* mirror neither subscribes nor applies a snapshot.
C13_AlwaysNotReadyError ==
    userId = None =>
        /\ NothingAttempted
        /\ \A form \in FormInputs :
               handleFlagPost(Fill(World, form), userId).world.appState.error
                   = Some(NotReadyError)

\* C13 (amended): while the identity has not been obtained, no flagPost sends
\* a request and the ledger mirror neither subscribes nor applies a snapshot;
\* a form that passes the field checks is refused with the not-ready error,
\* while a form that fails one is refused with that field's error, which is
\* checked first.
C13_NotReadyRefused ==
    userId = None =>
        /\ NothingAttempted
        /\ \A form \in FormInputs :
               LET error == handleFlagPost(Fill(World, form), userId).world.appState.error
               IN  IF FormRejected(form)
                   THEN error = FlagValidationError(form, Some("u1"))
                        /\ error # Some(NotReadyError)
                   ELSE error = Some(NotReadyError)

\* A well-formed form was submitted before the identity arrived.
C13_Witness ==
    /\ userId = None
    /\ ~dom.errorHidden
    /\ dom.errorMessage = NotReadyError
    /\ dom.postContent = SomeText

\* C14: when the flagPost response reports a violation, then after the
\* response is handled the view is in courtroom mode, the bound case
\* identifier is the returned case_id and the local session state is the
\* initial IDLE snapshot, whatever it was before.
C14_ViolationResetsSession ==
    [][ FlagPostViolation =>
            /\ appState'.showCourtroom
            /\ dom'.mainContentHidden
            /\ ~dom'.courtroomSessionHidden
            /\ appState'.currentCaseIdForCourtroom = Some(CaseId(issued'))
            /\ appState'.courtroomSessionState = InitialSessionState ]_vars

\* C15: when the flagPost response reports no violation, or the request
\* fails, the view stays in flagging mode and the bound case identifier, the
\* session state and the poll timer are unchanged.
C15_NoViolationKeepsFlaggingView ==
    [][ (FlagPostNoViolation \/ FlagPostFails) =>
            /\ ~appState'.showCourtroom
            /\ ~dom'.mainContentHidden
            /\ dom'.courtroomSessionHidden
            /\ appState'.currentCaseIdForCourtroom = appState.currentCaseIdForCourtroom
            /\ appState'.courtroomSessionState = appState.courtroomSessionState
            /\ UNCHANGED << courtroomPollingInterval, timers >> ]_vars

\* A flag_post request has failed after an earlier case had been through the
\* courtroom.
C15_Witness ==
    /\ appState.status = << "Error during initial processing." >>
    /\ flagReq = None
    /\ ~appState.isProcessing
    /\ ~appState.showCourtroom
    /\ issued > 0

\* A flag_post request comes to its end, whatever the answer.
FlagPostCompletes ==
    \/ FlagPostViolation
    \/ FlagPostViolationWithoutCaseId
    \/ FlagPostNoViolation
    \/ FlagPostFails

ContentFieldsEmpty(d) ==
    d.postContent = << >> /\ d.postLink = << >> /\ d.victimInfo = << >>

\* C16 (as stated): on every completion of flagPost, whether it succeeded or
\* failed for any reason (a rejection by validation included), the content,
\* link and victim-info fields are empty and the victim-address field holds
\* the value it had before the call.
C16_FieldsClearedOnEveryCompletion ==
    [][ (FlagPostCompletes \/ FlagPostRejected) =>
            /\ ContentFieldsEmpty(dom')
            /\ FlagPostCompletes => dom'.victimEthAddress = dom.victimEthAddress ]_vars

\* C16 (amended): when a flagPost that sent its request completes, with
\* success or failure, the content, link and victim-info fields are empty and
\* the victim-address field holds the value it had before the call, as typed;
\* a flagPost rejected by validation leaves all four fields as typed.
C16_FieldsClearedAfterRequest ==
    [][ /\ FlagPostCompletes =>
            /\ ContentFieldsEmpty(dom')
            /\ dom'.victimEthAddress = dom.victimEthAddress
        /\ FlagPostRejected =>
            \E form \in FormInputs :
                /\ FormRejected(form) \/ userId = None
                /\ dom'.postContent = form.postContent
                /\ dom'.postLink = form.postLink
                /\ dom'.victimInfo = form.victimInfo
                /\ dom'.victimEthAddress = form.victimEthAddress ]_vars

\* A request has completed: the three fields are empty and the address field
\* still holds the address with the blanks typed around it.
C16_Witness ==
    /\ appState.status = << "No violation detected. Case closed." >>
    /\ flagReq = None
    /\ ContentFieldsEmpty(dom)
    /\ dom.victimEthAddress = PaddedAddress

NoCaseSelectedError == << "No case selected to start courtroom session." >>

\* A click on "Start Courtroom Session" while no case identifier is bound.
StartWithoutCase == StartCourtroomSession /\ BoundCase = None

\* C17: startSession with no case identifier bound fails with the 'no case
\* selected' error, sends no request, starts no poll timer and leaves the
\* session state and the status text unchanged.
C17_StartWithoutCaseRefused ==
    [][ StartWithoutCase =>
            /\ appState'.error = Some(NoCaseSelectedError)
            /\ dom'.errorMessage = NoCaseSelectedError
            /\ startReq = None /\ startReq' = None
            /\ UNCHANGED << courtroomPollingInterval, timers, polls >>
            /\ appState'.courtroomSessionState = appState.courtroomSessionState
            /\ appState'.status = appState.status ]_vars

\* Start was clicked in a courtroom view that has no case bound.
C17_Witness ==
    /\ appState.showCourtroom
    /\ BoundCase = None
    /\ ~dom.errorHidden
    /\ dom.errorMessage = NoCaseSelectedError
    /\ startReq = None

\* C18: when the backend accepts startSession for the bound case, then after
\* the response is handled the local court status is STARTING, exactly one
\* poll timer is active, and the case bound is the one the request was sent
\* for.
C18_StartSuccessStartsPolling ==
    [][ StartSessionSucceeds =>
            /\ SessionStatus' = "STARTING"
            /\ Cardinality(timers') = 1
            /\ IsSome(courtroomPollingInterval')
            /\ Get(courtroomPollingInterval') \in timers'
            /\ BoundCase' = Some(Get(startReq).case_id) ]_vars

\* C18, without its last part: status and timer after a handled start
\* response, whichever case is bound by then.
C18_StartSuccessStatusAndTimer ==
    [][ StartSessionSucceeds =>
            /\ SessionStatus' = "STARTING"
            /\ Cardinality(timers') = 1
            /\ IsSome(courtroomPollingInterval')
            /\ Get(courtroomPollingInterval') \in timers' ]_vars

\* What handling a failed start leaves: status ERROR, the failure message as
\* the session's error message, no timer.
StartFailureApplied ==
    StartSessionFails =>
        /\ SessionStatus' = "ERROR"
        /\ \E f \in Failures :
               appState'.courtroomSessionState.error_message =
                   Some(ErrorMessage(f, << "Failed to start courtroom session on backend." >>))
        /\ timers' = {}
        /\ courtroomPollingInterval' = None

\* C19: when startSession fails, the local court status becomes ERROR with
\* the failure message stored as the session error message, no poll timer is
\* active, and no poll request is issued afterwards until reset().
C19_StartFailureStopsPolling ==
    [][ /\ StartFailureApplied
        /\ "start failed" \in observed => PollsInFlight' <= PollsInFlight ]_vars

\* C19, its first part alone: the state right after the failure is handled.
C19_StartFailureSetsError == [][ StartFailureApplied ]_vars

\* C20: a successful poll replaces the whole local session-state snapshot
\* with the response: afterwards the local session state equals the response
\* field for field, and nothing of the previous snapshot survives.
C20_PollReplacesSnapshot ==
    [][ PollSucceeds =>
            \E m \in BagToSet(polls) :
                /\ polls' = polls (-) SetToBag({ m })
                /\ appState'.courtroomSessionState = m.data
                /\ \A field \in DOMAIN InitialSessionState :
                       appState'.courtroomSessionState[field] = m.data[field]
                /\ DOMAIN appState'.courtroomSessionState = DOMAIN m.data ]_vars

\* A snapshot of the hearing in progress has replaced the ERROR snapshot a
\* failed start had left: its error message is gone, the transcript is the
\* response's.
C20_Witness ==
    /\ "start failed" \in observed
    /\ SessionStatus = InProgress
    /\ appState.courtroomSessionState.error_message = None
    /\ Len(appState.courtroomSessionState.transcript) = MaxTranscript

\* The message a failed poll stores: the response's detail (or the default of
\* line 512), or what fetch threw.
PollFailureMessage(f) ==
    IF f.kind = "rejected"
    THEN OrText(f.detail, << "Failed to fetch updates." >>)
    ELSE f.message

\* C21: when a poll fails (network error or non-2xx response), then in the
\* same step the local court status becomes ERROR, the error message is
\* stored in the session state, and the poll timer is cleared: the step
\* issues no request and leaves no timer whose tick could issue one.
C21_PollFailureStopsPolling ==
    [][ PollFails =>
            /\ SessionStatus' = "ERROR"
            /\ \E f \in Failures :
                   appState'.courtroomSessionState.error_message = Some(PollFailureMessage(f))
            /\ timers' = {}
            /\ courtroomPollingInterval' = None
            /\ PollsInFlight' = PollsInFlight - 1 ]_vars

\* A poll of a started session was refused by the backend.
C21_Witness ==
    /\ "poll failed" \in observed
    /\ SessionStatus = "ERROR"
    /\ appState.courtroomSessionState.error_message = Some(<< "Case not found" >>)
    /\ timers = {}
    /\ backend.status = InProgress

\* C22: in every reachable local session state a non-null final_verdict
\* implies court_status = COMPLETED.
C22_VerdictImpliesCompleted ==
    IsSome(appState.courtroomSessionState.final_verdict) => SessionStatus = "COMPLETED"

\* s is an initial segment of t.
IsPrefix(s, t) == Len(s) <= Len(t) /\ SubSeq(t, 1, Len(s)) = s

\* C23: the locally mirrored transcript is append-only: between two resets
\* each new value of the local transcript has the previous one as a prefix,
\* under every order in which poll responses are delivered (the backend's
\* transcript only grows: BackendAppendsEntry).
C23_TranscriptAppendOnly ==
    [][ ~ResetCourtroomSessionView =>
            IsPrefix(appState.courtroomSessionState.transcript,
                     appState'.courtroomSessionState.transcript) ]_vars

\* The log entry the snapshot callback writes for a snapshot (line 362).
LedgerLogEntry(docs) ==
    << "Updated public ledger with ", NumText(Len(docs)), " cases." >>

LastLogEntry(a) == a.log[Len(a.log)]

\* C24: the local case cache holds exactly the records of the most recently
\* delivered ledger snapshot: the step that processes a snapshot leaves the
\* cache equal to that snapshot (the one its log entry counts), whatever the
\* cache held before, and no other step touches the cache.
C24_CacheIsLatestSnapshot ==
    [][ /\ LedgerSnapshot =>
               \E docs \in LedgerSnapshots :
                   /\ appState'.cases = docs
                   /\ LastLogEntry(appState') = LedgerLogEntry(docs)
        /\ ~LedgerSnapshot => appState'.cases = appState.cases ]_vars

\* A snapshot of three records was followed by one of a single other record.
C24_Witness ==
    /\ appState.cases = << CaseRecord("k4") >>
    /\ appState.log = << LedgerLogEntry(<< CaseRecord("k1"), CaseRecord("k2"), CaseRecord("k3") >>),
                         LedgerLogEntry(<< CaseRecord("k4") >>) >>

\* The text the error callback of the ledger stream shows and logs.
SnapshotErrorText == << "Firestore Snapshot Error: ", "permission-denied" >>

\* C25: a ledger subscription error sets the user-visible error and appends
\* a log entry, leaves the case cache as it was, changes no session or view
\* state, and leaves the popup without a subscription.
C25_SubscriptionErrorKeepsCache ==
    [][ LedgerError =>
            /\ appState'.error = Some(SnapshotErrorText)
            /\ ~dom'.errorHidden /\ dom'.errorMessage = SnapshotErrorText
            /\ LastLogEntry(appState') = SnapshotErrorText
            /\ appState'.cases = appState.cases
            /\ appState' = [ appState EXCEPT !.error = appState'.error,
                                              !.log = appState'.log ]
            /\ dom' = [ dom EXCEPT !.errorHidden = FALSE,
                                    !.errorMessage = SnapshotErrorText ]
            /\ UNCHANGED << courtroomPollingInterval, timers, userId, Network >>
            /\ ~subscribed' ]_vars

\* The stream failed after it had delivered records; they are still cached.
C25_Witness ==
    /\ ~subscribed
    /\ IsSome(userId)
    /\ dom.errorMessage = SnapshotErrorText
    /\ Len(appState.cases) = 3

\* C26: exactly one of the two top-level views is visible: the courtroom
\* view if and only if showCourtroom is set, the flagging view if and only
\* if it is not.
C26_ExactlyOneViewVisible ==
    /\ ~dom.courtroomSessionHidden <=> appState.showCourtroom
    /\ ~dom.mainContentHidden <=> ~appState.showCourtroom

\* The courtroom view is the one on screen.
C26_Witness ==
    /\ appState.showCourtroom
    /\ ~dom.courtroomSessionHidden
    /\ dom.mainContentHidden

\* C27: whenever the session state has a final verdict, the verdict panel is
\* visible, the start control is hidden and the reset control is visible;
\* whenever it has none, the verdict panel is hidden.
C27_VerdictPanelAndControls ==
    IF IsSome(appState.courtroomSessionState.final_verdict)
    THEN ~dom.finalVerdictHidden /\ dom.startHidden /\ ~dom.resetHidden
    ELSE dom.finalVerdictHidden

\* The text carries the message: the message's pieces occur in it, in a row.
Carries(text, message) ==
    \E i \in 0..Len(text) :
        /\ i + Len(message) <= Len(text)
        /\ SubSeq(text, i + 1, i + Len(message)) = message

\* C28: when a poll's 2xx response is a snapshot with court_status ERROR and
\* an error_message, polling stops, the user-visible error text carries that
\* message, and the verdict panel is hidden.
C28_ErrorSnapshotSurfaced ==
    [][ ( /\ PollSucceeds
          /\ SessionStatus' = "ERROR"
          /\ IsSome(appState'.courtroomSessionState.error_message) ) =>
            /\ timers' = {}
            /\ courtroomPollingInterval' = None
            /\ ~dom'.errorHidden
            /\ Carries(dom'.errorMessage,
                       Get(appState'.courtroomSessionState.error_message))
            /\ dom'.finalVerdictHidden ]_vars

\* The non-2xx responses that carry a detail.
RejectionsWithDetail == { f \in Failures : f.kind = "rejected" /\ IsSome(f.detail) }

\* The error box after each endpoint's handler has dealt with the non-2xx
\* response f, from the present state.
FlagPostRejectionShown(f) ==
    FlagPostFinally(FlagPostCatch(World,
        ErrorMessage(f, << "Backend responded with status " >>))).dom
StartRejectionShown(f) ==
    StartSessionFinally(StartSessionCatch(World,
        ErrorMessage(f, << "Failed to start courtroom session on backend." >>))).dom
PollRejectionShown(f) == PollRejected(World, f.detail).dom

\* C29 as stated: for each of the three endpoints, a non-2xx response with
\* detail d makes the user-visible error message equal to d, nothing added
\* or removed.
C29_DetailVerbatimEverywhere ==
    \A f \in RejectionsWithDetail :
        /\ IsSome(flagReq) =>
               /\ ~FlagPostRejectionShown(f).errorHidden
               /\ FlagPostRejectionShown(f).errorMessage = Get(f.detail)
        /\ IsSome(startReq) =>
               /\ ~StartRejectionShown(f).errorHidden
               /\ StartRejectionShown(f).errorMessage = Get(f.detail)
        /\ PollsInFlight > 0 =>
               /\ ~PollRejectionShown(f).errorHidden
               /\ PollRejectionShown(f).errorMessage = Get(f.detail)

\* C29: a non-2xx response with detail d makes the user-visible error message
\* equal to d for get_courtroom_updates; for flag_post it is "Error during
\* initial processing: " followed by d, and for start_courtroom_session it
\* is "Error starting courtroom session: " followed by d.
C29_DetailVerbatimAfterPrefix ==
    \A f \in RejectionsWithDetail :
        /\ IsSome(flagReq) =>
               /\ ~FlagPostRejectionShown(f).errorHidden
               /\ FlagPostRejectionShown(f).errorMessage =
                      << "Error during initial processing: " >> \o Get(f.detail)
        /\ IsSome(startReq) =>
               /\ ~StartRejectionShown(f).errorHidden
               /\ StartRejectionShown(f).errorMessage =
                      << "Error starting courtroom session: " >> \o Get(f.detail)
        /\ PollsInFlight > 0 =>
               /\ ~PollRejectionShown(f).errorHidden
               /\ PollRejectionShown(f).errorMessage = Get(f.detail)

\* The backend refused to start the session and the popup shows why.
C29_Witness ==
    /\ "start failed" \in observed
    /\ ~dom.errorHidden
    /\ dom.errorMessage = << "Error starting courtroom session: ", "Case not found" >>

\* C30: every REPORT_POST message is acknowledged inside the step that
\* handles it, with a response whose status is "success"; handling it
\* changes only the content and link form fields and the log, never the
\* view flag, the bound case, the session state or anything else.
C30_ReportPostAcknowledged ==
    [][ ReportPost =>
            /\ IsSome(reportAck')
            /\ Get(reportAck').status = "success"
            /\ \E request \in ObserverMessages :
                   dom' = [ dom EXCEPT !.postContent = request.payload.postContent,
                                       !.postLink = request.payload.sourceUrl ]
            /\ appState' = [ appState EXCEPT !.log = appState'.log ]
            /\ UNCHANGED << courtroomPollingInterval, timers, userId, subscribed, Network >> ]_vars

\* A reported post has filled the two fields and its sender was answered.
C30_Witness ==
    /\ IsSome(reportAck)
    /\ Get(reportAck).status = "success"
    /\ dom.postContent = SomeText
    /\ dom.postLink = Url
    /\ \E i \in 1..Len(appState.log) :
           appState.log[i] = << "Received flagged post content from " >> \o Url

\* The same handler applied in the states of the courtroom driver (a
\* message may arrive while a session is on screen): it answers, and only
\* the two fields and the log differ afterwards.
C30_ReportPostFrameDuringSession ==
    \A request \in ObserverMessages :
        LET done == popupOnMessage(World, request) IN
        /\ IsSome(done.response) /\ Get(done.response).status = "success"
        /\ done.world.appState = [ appState EXCEPT !.log = done.world.appState.log ]
        /\ done.world.dom = [ dom EXCEPT !.postContent = request.payload.postContent,
                                         !.postLink = request.payload.sourceUrl ]
        /\ done.world.timers = timers
        /\ done.world.interval = courtroomPollingInterval

\* C31: at most one poll timer exists at any time, and the stored handle is
\* null exactly when no timer is scheduled (a stored handle names the one
\* scheduled timer).
C31_AtMostOneTimer ==
    /\ Cardinality(timers) <= 1
    /\ courtroomPollingInterval = None <=> timers = {}
    /\ IsSome(courtroomPollingInterval) => timers = { Get(courtroomPollingInterval) }

\* Polling was started twice in a row (by the render of the courtroom view
\* and again by the start response) and one timer is scheduled.
C31_Witness ==
    /\ Cardinality(timers) = 1
    /\ IsSome(courtroomPollingInterval)
    /\ appState.log = << << "Started polling for courtroom updates." >>,
                         << "Started polling for courtroom updates." >> >>

\* C32: whenever a poll timer is active, a case identifier is bound and the
\* view is in courtroom mode.
C32_TimerImpliesBoundCourtroom ==
    timers # {} =>
        /\ IsSome(appState.currentCaseIdForCourtroom)
        /\ appState.showCourtroom

\* The busy flag is set, and the button disabled, exactly while a flag_post
\* request is outstanding.
BusyWhileOutstanding(a, d, req) ==
    /\ a.isProcessing <=> IsSome(req)
    /\ d.flagDisabled <=> a.isProcessing

\* C33: the busy flag is set exactly while a flag_post request is
\* outstanding: a flagPost that sends its request sets it, the step that
\* settles the request (success or failure) clears it, and a request is sent
\* only while none is outstanding.
C33_BusyExactlyWhileOutstanding ==
    [][ /\ BusyWhileOutstanding(appState, dom, flagReq)
        /\ BusyWhileOutstanding(appState', dom', flagReq')
        /\ (HandleFlagPost /\ appState'.isProcessing) =>
               /\ flagReq = None
               /\ ~appState.isProcessing
               /\ IsSome(flagReq')
        /\ (FlagPostViolation \/ FlagPostViolationWithoutCaseId
                \/ FlagPostNoViolation \/ FlagPostFails) =>
               /\ appState.isProcessing
               /\ ~appState'.isProcessing
               /\ flagReq' = None ]_vars

\* A validated form was sent and its answer has not arrived.
C33_Witness ==
    /\ appState.isProcessing
    /\ dom.flagDisabled
    /\ IsSome(flagReq)

\* C34: over any sequence of calls, compensation for a case is transferred
\* to the victim at most once, also when the victim is a contract that calls
\* distributeCompensation again while it receives the transfer.
C34_CompensationAtMostOnce ==
    \A id \in CaseIds : Committed.compensated[id] <= 1

\* A case is recorded once its timestamp is set (line 51 reads it so).
Recorded(s, id) == s.cases[id].timestamp # 0

\* What recordCase fixes for a case.
Terms(c) ==
    << c.caseId, c.victimAddress, c.penaltyAmountWei, c.compensationToVictimWei >>

\* caseIds holds each recorded identifier once and no other.
ListsEachRecordedOnce(s) ==
    \A id \in CaseIds :
        Cardinality({ i \in 1..Len(s.caseIds) : s.caseIds[i] = id })
            = IF Recorded(s, id) THEN 1 ELSE 0

\* C35: recordCase for an identifier that is already recorded reverts and
\* changes nothing; once a case is recorded on the chain its identifier,
\* victim address, penalty and compensation never change; caseIds holds each
\* recorded identifier exactly once.
C35_RecordedCaseIsFixed ==
    [][ /\ (RecordCase /\ Recorded(Storage, Get(receipt').caseId)) =>
               /\ Get(receipt').reverted
               /\ UNCHANGED << cases, caseIds, balance, paid, compensated, frames >>
        /\ \A id \in CaseIds :
               Recorded(Committed, id) =>
                   /\ Recorded(Committed', id)
                   /\ Committed.cases[id].caseId = id
                   /\ Terms(Committed'.cases[id]) = Terms(Committed.cases[id])
        /\ ListsEachRecordedOnce(Storage')
        /\ ListsEachRecordedOnce(Committed') ]_vars

\* A second recordCase for a recorded identifier was turned down.
C35_Witness ==
    /\ receipt = Receipt("recordCase", "c1", TRUE)
    /\ Recorded(Storage, "c1")
    /\ caseIds = << "c2", "c1" >>
    /\ frames = << >>

\* Every case whose compensation is marked distributed has its fine marked
\* collected.
DistributedImpliesCollected(s) ==
    \A id \in CaseIds :
        s.cases[id].compensationDistributed => s.cases[id].fineCollected

\* C36: in every reachable state each case satisfies compensationDistributed
\* implies fineCollected (also in the middle of a transaction), and on the
\* chain both flags only ever change from false to true.
C36_FlagsOrderedAndMonotone ==
    [][ /\ DistributedImpliesCollected(Storage)
        /\ DistributedImpliesCollected(Storage')
        /\ DistributedImpliesCollected(Committed')
        /\ \A id \in CaseIds :
               /\ Committed.cases[id].fineCollected => Committed'.cases[id].fineCollected
               /\ Committed.cases[id].compensationDistributed
                      => Committed'.cases[id].compensationDistributed ]_vars

\* A case went through both steps: fine paid, compensation sent.
C36_Witness ==
    /\ frames = << >>
    /\ cases["c1"].fineCollected
    /\ cases["c1"].compensationDistributed
    /\ compensated["c1"] = 1

\* payFine(id) with this msg.value has to be turned down: the case is
\* unknown or already paid, or the amount is below the recorded penalty.
PayFineRefusable(s, id, value) ==
    \/ ~Recorded(s, id)
    \/ s.cases[id].fineCollected
    \/ value < s.cases[id].penaltyAmountWei

\* C37: payFine succeeds at most once per case and only for a recorded case
\* with a sent amount of at least the recorded penalty; a call for an
\* unknown case, an already-paid case or with a smaller amount reverts and
\* leaves every case record and the contract balance unchanged.
C37_PayFineOnceAndGuarded ==
    [][ /\ \A id \in CaseIds : paid'[id] <= 1 /\ Committed'.paid[id] <= 1
        /\ (PayFine /\ ~Get(receipt').reverted) =>
               LET id == Get(receipt').caseId IN
               /\ Recorded(Storage, id)
               /\ ~cases[id].fineCollected
               /\ balance' - balance >= cases[id].penaltyAmountWei
               /\ paid'[id] = paid[id] + 1
               /\ cases' = [ cases EXCEPT ![id].fineCollected = TRUE ]
        /\ (PayFine /\ Get(receipt').reverted) =>
               UNCHANGED << cases, caseIds, balance, paid, compensated, frames >>
        /\ \A id \in CaseIds, value \in 0..MaxWei :
               PayFineRefusable(Storage, id, value) =>
                   payFine(Storage, id, value) = Reverted(Storage) ]_vars

\* A fine was paid once and a second payment for the same case came back.
C37_Witness ==
    /\ receipt = Receipt("payFine", "c1", TRUE)
    /\ cases["c1"].fineCollected
    /\ paid["c1"] = 1
    /\ balance >= cases["c1"].penaltyAmountWei

====
